---------------------------- MODULE Spec2Model ----------------------------
(***************************************************************************)
(* RSS -> Telegram app (src/streamlit_app.py).                             *)
(*                                                                         *)
(* Texts are strings; a character is a string of length 1, read with       *)
(* SubSeq(s, i, i).  A similarity score (a Python float n / d) is the pair *)
(* <<n, d>> with d > 0, compared by cross-multiplication: for the small    *)
(* token counts here two quotients are equal as floats exactly when they   *)
(* are equal as rationals.                                                 *)
(***************************************************************************)
EXTENDS Integers, Sequences, FiniteSets, TLC

VARIABLES
    articles,    \* st.session_state["articles"]
    bot_token,   \* the "Telegram Bot Token" text input
    chat_id,     \* the "Telegram Chat ID" text input
    last,        \* what the last script run did (inputs, posts made, messages shown)
    rag,         \* one call of build_rag_summary: its arguments and its results
    sim          \* one call of simple_similarity: its arguments and its result

vars == <<articles, bot_token, chat_id, last, rag, sim>>

---------------------------------------------------------------------------
(* Characters *)

LowerLetters == {"a","b","c","d","e","f","g","h","i","j","k","l","m",
                 "n","o","p","q","r","s","t","u","v","w","x","y","z"}

UpperLetters == {"A","B","C","D","E","F","G","H","I","J","K","L","M",
                 "N","O","P","Q","R","S","T","U","V","W","X","Y","Z"}

Digits == {"0","1","2","3","4","5","6","7","8","9"}

\* the characters \w matches
WordChars == LowerLetters \cup UpperLetters \cup Digits \cup {"_"}

\* the characters \s matches, and str.strip() / str.rstrip() remove
Whitespace == {" ", "\t", "\n"}

\* the characters of the lookbehind (?<=[.!?])
SentenceEnd == {".", "!", "?"}

LowerOf ==
    "A" :> "a" @@ "B" :> "b" @@ "C" :> "c" @@ "D" :> "d" @@ "E" :> "e" @@
    "F" :> "f" @@ "G" :> "g" @@ "H" :> "h" @@ "I" :> "i" @@ "J" :> "j" @@
    "K" :> "k" @@ "L" :> "l" @@ "M" :> "m" @@ "N" :> "n" @@ "O" :> "o" @@
    "P" :> "p" @@ "Q" :> "q" @@ "R" :> "r" @@ "S" :> "s" @@ "T" :> "t" @@
    "U" :> "u" @@ "V" :> "v" @@ "W" :> "w" @@ "X" :> "x" @@ "Y" :> "y" @@
    "Z" :> "z"

\* str.lower() of one character
lower(c) == IF c \in UpperLetters THEN LowerOf[c] ELSE c

CharAt(s, i) == SubSeq(s, i, i)

---------------------------------------------------------------------------
(* Helper functions *)

IsWord(text, i) == CharAt(text, i) \in WordChars

\* the match of \w+ that starts at position i, lowered
RECURSIVE LowerRun(_, _)
LowerRun(text, i) ==
    IF i > Len(text) \/ ~IsWord(text, i) THEN ""
    ELSE lower(CharAt(text, i)) \o LowerRun(text, i + 1)

\* WORD_RE.findall(text) matches the maximal runs of word characters: one
\* starts wherever a word character follows the start or a non-word character
text_to_tokens(text) ==
    { LowerRun(text, i) :
        i \in { k \in 1..Len(text) :
                  IsWord(text, k) /\ (k = 1 \/ ~IsWord(text, k - 1)) } }

\* simple_similarity dividing by the size of the union (the Jaccard index)
JaccardSimilarity(a, b) ==
    LET ta == text_to_tokens(a)
        tb == text_to_tokens(b)
    IN  IF ta = {} \/ tb = {} THEN <<0, 1>>
        ELSE <<Cardinality(ta \cap tb), Cardinality(ta \cup tb)>>

simple_similarity(a, b) ==
    LET ta == text_to_tokens(a)
        tb == text_to_tokens(b)
    IN  IF ta = {} \/ tb = {} THEN <<0, 1>>
        ELSE <<Cardinality(ta \cap tb), Cardinality(ta) + Cardinality(tb)>>

\* sim > 0 and x[0] > y[0] on scores
Positive(s) == s[1] > 0
ScoreGt(s, t) == s[1] * t[2] > t[1] * s[2]

RECURSIVE LStrip(_)
LStrip(s) ==
    IF s # "" /\ Head(s) \in Whitespace THEN LStrip(Tail(s)) ELSE s

RECURSIVE RStrip(_)
RStrip(s) ==
    IF s # "" /\ CharAt(s, Len(s)) \in Whitespace
    THEN RStrip(SubSeq(s, 1, Len(s) - 1))
    ELSE s

Strip(s) == RStrip(LStrip(s))

\* the end of the run of whitespace that starts at position i
RECURSIVE SkipSpace(_, _)
SkipSpace(s, i) ==
    IF i <= Len(s) /\ CharAt(s, i) \in Whitespace THEN SkipSpace(s, i + 1) ELSE i

Min(S) == CHOOSE x \in S : \A y \in S : x <= y

\* where a match of (?<=[.!?])\s+ starts: whitespace right after one of . ! ?
SepStarts(s) ==
    { i \in 2..Len(s) :
        CharAt(s, i - 1) \in SentenceEnd /\ CharAt(s, i) \in Whitespace }

\* re.split(r"(?<=[.!?])\s+", s) from position `from` on: a separator is the
\* whole run of whitespace that starts at a member of seps
RECURSIVE SplitFrom(_, _, _)
SplitFrom(s, from, seps) ==
    LET later == { i \in seps : i >= from }
    IN  IF later = {} THEN <<SubSeq(s, from, Len(s))>>
        ELSE <<SubSeq(s, from, Min(later) - 1)>>
             \o SplitFrom(s, SkipSpace(s, Min(later)), seps)

SplitSentences(s) == SplitFrom(s, 1, SepStarts(s))

\* sep.join(parts)
RECURSIVE Join(_, _)
Join(sep, parts) ==
    IF parts = <<>> THEN ""
    ELSE IF Len(parts) = 1 THEN parts[1]
    ELSE parts[1] \o sep \o Join(sep, Tail(parts))

\* seq[:n]
Take(seq, n) == SubSeq(seq, 1, IF Len(seq) < n THEN Len(seq) ELSE n)

DefaultMaxChars == 300
SentencesKept == 3

summarize_text(text, max_chars) ==
    IF text = "" THEN ""
    ELSE LET sentences == SplitSentences(Strip(text))
             summary == Join(" ", Take(sentences, SentencesKept))
         IN  IF Len(summary) > max_chars
             THEN RStrip(Take(summary, max_chars)) \o "..."
             ELSE summary

\* the text an article is compared by: title + " " + summary
compare_text(a) == a.title \o " " \o a.summary

\* the list `scores`: one (sim, h) pair per history entry, h by its position
Scores(article, history) ==
    [ j \in 1..Len(history) |->
        [ sim |-> simple_similarity(compare_text(article), compare_text(history[j])),
          h   |-> j ] ]

\* InsertDesc putting x before the pairs whose sim is equal (a sort that is
\* not stable)
RECURSIVE InsertDescBeforeEqual(_, _)
InsertDescBeforeEqual(sorted, x) ==
    IF sorted = <<>> THEN <<x>>
    ELSE IF ~ScoreGt(Head(sorted).sim, x.sim) THEN <<x>> \o sorted
    ELSE <<Head(sorted)>> \o InsertDescBeforeEqual(Tail(sorted), x)

\* where list.sort(key=sim, reverse=True) puts x among pairs already in
\* order: a stable sort leaves x after the pairs whose sim is equal
RECURSIVE InsertDesc(_, _)
InsertDesc(sorted, x) ==
    IF sorted = <<>> THEN <<x>>
    ELSE IF ScoreGt(x.sim, Head(sorted).sim) THEN <<x>> \o sorted
    ELSE <<Head(sorted)>> \o InsertDesc(Tail(sorted), x)

RECURSIVE SortFrom(_, _, _)
SortFrom(scores, i, sorted) ==
    IF i > Len(scores) THEN sorted
    ELSE SortFrom(scores, i + 1, InsertDesc(sorted, scores[i]))

\* scores.sort(key=lambda x: x[0], reverse=True)
SortDesc(scores) == SortFrom(scores, 1, <<>>)

\* [p for p in pairs if p.sim > 0]
RECURSIVE PositiveOnly(_)
PositiveOnly(pairs) ==
    IF pairs = <<>> THEN <<>>
    ELSE (IF Positive(Head(pairs).sim) THEN <<Head(pairs)>> ELSE <<>>)
         \o PositiveOnly(Tail(pairs))

\* [h for sim, h in scores[:top_k] if sim > 0], as positions in the history
Context(sorted, top_k) ==
    LET kept == PositiveOnly(Take(sorted, top_k))
    IN  [ i \in 1..Len(kept) |-> kept[i].h ]

\* [c.get("title", "") for c in context if c.get("title")]
RECURSIVE RelTitles(_, _)
RelTitles(context, history) ==
    IF context = <<>> THEN <<>>
    ELSE (IF history[Head(context)].title # ""
          THEN <<history[Head(context)].title>> ELSE <<>>)
         \o RelTitles(Tail(context), history)

TopKDefault == 3
TitlesListed == 2
SeparatorLen == 3
SummaryBudget == 350

\* Fits with <= for <
FitsInclusive(base_summary, ctx) ==
    Len(base_summary) + Len(ctx) + SeparatorLen <= SummaryBudget

\* len(base_summary) + len(ctx) + 3 < 350
Fits(base_summary, ctx) ==
    Len(base_summary) + Len(ctx) + SeparatorLen < SummaryBudget

\* Annotate without the test of rel_titles
AnnotateAlways(base_summary, rel_titles) ==
    LET ctx == "Related to: " \o Join("; ", Take(rel_titles, TitlesListed))
    IN  IF Fits(base_summary, ctx)
        THEN base_summary \o " | " \o ctx
        ELSE base_summary

\* the end of build_rag_summary, once context is known not to be empty
Annotate(base_summary, rel_titles) ==
    IF rel_titles # <<>>
    THEN LET ctx == "Related to: " \o Join("; ", Take(rel_titles, TitlesListed))
         IN  IF Fits(base_summary, ctx)
             THEN base_summary \o " | " \o ctx
             ELSE base_summary
    ELSE base_summary

build_rag_summary(article, history, top_k) ==
    LET context == Context(SortDesc(Scores(article, history)), top_k)
        base_summary == summarize_text(article.summary, DefaultMaxChars)
    IN  IF context = <<>> THEN base_summary
        ELSE Annotate(base_summary, RelTitles(context, history))

\* getattr(entry, name, ""): a feed entry is a function on the fields it has
getattr(entry, name) == IF name \in DOMAIN entry THEN entry[name] ELSE ""

parse_entry(entry) ==
    [ title     |-> getattr(entry, "title"),
      link      |-> getattr(entry, "link"),
      summary   |-> IF getattr(entry, "summary") # ""
                    THEN getattr(entry, "summary")
                    ELSE getattr(entry, "description"),
      published |-> getattr(entry, "published") ]

\* the text of one message: the parts that are present, joined by blank lines
message_text(art) ==
    Join("\n\n",
         <<"Title: " \o (IF art.title # "" THEN art.title ELSE "No title")>>
         \o (IF art.summary # "" THEN <<"Summary: " \o art.summary>> ELSE <<>>)
         \o (IF art.link # "" THEN <<"Link: " \o art.link>> ELSE <<>>))

\* what requests.post does with one message: a response that is ok, a
\* response that is not, or an exception (the timeout, a connection error)
PostOutcomes == {"ok", "not_ok", "raise"}

\* SendLoop with count += 1 after every post, ok or not
RECURSIVE SendLoopCountsFailures(_, _, _, _, _, _)
SendLoopCountsFailures(arts, url, chat, max_messages, resp, s) ==
    LET i == s.next
        post == [ art |-> i, url |-> url, chat_id |-> chat,
                  text |-> message_text(arts[i]), outcome |-> resp[i] ]
        posted == [s EXCEPT !.posts = Append(@, post), !.next = i + 1,
                            !.count = s.count + 1]
    IN  IF i > Len(arts) \/ s.count >= max_messages
        THEN [s EXCEPT !.returned = TRUE]
        ELSE IF resp[i] = "raise" THEN posted
        ELSE IF resp[i] = "not_ok"
        THEN SendLoopCountsFailures(arts, url, chat, max_messages, resp,
                                    [posted EXCEPT !.errors = Append(@, s.count + 1)])
        ELSE SendLoopCountsFailures(arts, url, chat, max_messages, resp, posted)

\* the for loop of send_to_telegram from article i on.  resp[i] is what the
\* post of article i does; s.posts logs the posts made, s.errors the
\* st.error messages by the number they show
RECURSIVE SendLoop(_, _, _, _, _, _)
SendLoop(arts, url, chat, max_messages, resp, s) ==
    LET i == s.next
        post == [ art |-> i, url |-> url, chat_id |-> chat,
                  text |-> message_text(arts[i]), outcome |-> resp[i] ]
        posted == [s EXCEPT !.posts = Append(@, post), !.next = i + 1]
    IN  IF i > Len(arts) \/ s.count >= max_messages
        THEN [s EXCEPT !.returned = TRUE]
        ELSE IF resp[i] = "raise" THEN posted
        ELSE IF resp[i] = "not_ok"
        THEN SendLoop(arts, url, chat, max_messages, resp,
                      [posted EXCEPT !.errors = Append(@, s.count + 1)])
        ELSE SendLoop(arts, url, chat, max_messages, resp,
                      [posted EXCEPT !.count = s.count + 1])

\* returned is FALSE when an exception of requests.post left the function
send_to_telegram(arts, token, chat, max_messages, resp) ==
    SendLoop(arts, "https://api.telegram.org/bot" \o token \o "/sendMessage",
             chat, max_messages, resp,
             [ next |-> 1, count |-> 0, posts |-> <<>>, errors |-> <<>>,
               returned |-> FALSE ])

---------------------------------------------------------------------------
(* The script: one run per user action *)

\* [u.strip() for u in rss_input.splitlines() if u.strip()], on the lines
RECURSIVE Urls(_)
Urls(lines) ==
    IF lines = <<>> THEN <<>>
    ELSE (IF Strip(Head(lines)) # "" THEN <<Strip(Head(lines))>> ELSE <<>>)
         \o Urls(Tail(lines))

\* Summarize comparing each article with the whole batch, not the history
RECURSIVE SummarizeAgainstBatch(_, _, _)
SummarizeAgainstBatch(all_articles, i, history) ==
    IF i > Len(all_articles) THEN history
    ELSE LET art == all_articles[i]
             rag_summary == build_rag_summary(art, all_articles, TopKDefault)
         IN  SummarizeAgainstBatch(all_articles, i + 1,
                                   Append(history,
                                          [ title     |-> art.title,
                                            summary   |-> rag_summary,
                                            link      |-> art.link,
                                            published |-> art.published ]))

\* the loop that builds the summaries: history after the articles from i on
RECURSIVE Summarize(_, _, _)
Summarize(all_articles, i, history) ==
    IF i > Len(all_articles) THEN history
    ELSE LET art == all_articles[i]
             rag_summary == build_rag_summary(art, history, TopKDefault)
         IN  Summarize(all_articles, i + 1,
                       Append(history,
                              [ title     |-> art.title,
                                summary   |-> rag_summary,
                                link      |-> art.link,
                                published |-> art.published ]))

\* Inputs of the model

MaxArticlesInput == 2
MaxMessagesInput == 2
MaxFeedLen == 2

EntryA ==
    [ title     |-> "Storm hits region",
      link      |-> "http://news/1",
      summary   |-> "A storm hit the coast today. It caused flooding. "
                    \o "Residents evacuated. More rain expected tomorrow.",
      published |-> "Mon" ]

\* no summary (the description is used), no link, no published
EntryB ==
    [ title       |-> "Storm update",
      description |-> "A storm hit the coast today. It caused flooding. "
                      \o "Recovery efforts began." ]

Entries == {EntryA, EntryB}

SeqsUpTo(S, n) == UNION { [1..k -> S] : k \in 0..n }

FeedOutcomes ==
    {[raised |-> TRUE, entries |-> <<>>]}
    \cup { [raised |-> FALSE, entries |-> es] : es \in SeqsUpTo(Entries, MaxFeedLen) }

\* the text area, by its lines
RssInputs == { <<>>, <<"  ">>, <<"u1">>, <<" u1", "", "u2 ">> }

Tokens == {"", "123:abc"}
ChatIds == {"", "42"}

\* TLC evaluates an operator anew wherever it is used.  The three functions
\* below hold, for the inputs of the model, the results of code that reads
\* nothing but its argument (f @@ <<>> is f, held as a table)
UrlsOf == [ lines \in RssInputs |-> Urls(lines) ] @@ <<>>

ParsedOf == [ e \in Entries |-> parse_entry(e) ] @@ <<>>

HistoryOf ==
    [ batch \in SeqsUpTo({ parse_entry(e) : e \in Entries }, MaxArticlesInput) |->
        Summarize(batch, 1, <<>>) ] @@ <<>>

\* [parse_entry(e) for e in feed.entries]
ParseAll(entries) == [ i \in 1..Len(entries) |-> ParsedOf[entries[i]] ]

\* FetchAll leaving the loop at the first url that fails
RECURSIVE FetchAllStopsAtFailure(_, _)
FetchAllStopsAtFailure(feeds, i) ==
    IF i > Len(feeds) \/ feeds[i].raised THEN <<>>
    ELSE ParseAll(feeds[i].entries) \o FetchAllStopsAtFailure(feeds, i + 1)

\* the loop over urls: feeds[i] is what feedparser.parse does with urls[i],
\* an exception (the url is skipped) or a feed with its entries
RECURSIVE FetchAll(_, _)
FetchAll(feeds, i) ==
    IF i > Len(feeds) THEN <<>>
    ELSE (IF feeds[i].raised THEN <<>> ELSE ParseAll(feeds[i].entries))
         \o FetchAll(feeds, i + 1)

NoCall == [called |-> FALSE]

Init ==
    /\ articles = <<>>
    /\ bot_token \in Tokens
    /\ chat_id \in ChatIds
    /\ last = [kind |-> "start"]
    /\ rag = NoCall
    /\ sim = NoCall

\* Fetch storing the empty list when no entry was found
FetchStoresEmpty(rss_input, feeds, max_articles) ==
    LET urls == UrlsOf[rss_input]
        all_articles == FetchAll(feeds, 1)
        history == HistoryOf[Take(all_articles, max_articles)]
        run == [ kind |-> "fetch", rss_input |-> rss_input, feeds |-> feeds,
                 max_articles |-> max_articles ]
    IN  /\ IF urls = <<>>
           THEN /\ last' = run @@ [shown |-> "Please enter at least one RSS URL.",
                                   summarized |-> 0]
                /\ UNCHANGED articles
           ELSE /\ articles' = history
                /\ last' = run @@ [shown |-> "Fetched and summarized",
                                   summarized |-> Len(history)]
        /\ UNCHANGED <<bot_token, chat_id, rag, sim>>

\* "Fetch & summarize" pressed
Fetch(rss_input, feeds, max_articles) ==
    LET urls == UrlsOf[rss_input]
        all_articles == FetchAll(feeds, 1)
        history == HistoryOf[Take(all_articles, max_articles)]
        run == [ kind |-> "fetch", rss_input |-> rss_input, feeds |-> feeds,
                 max_articles |-> max_articles ]
    IN  /\ IF urls = <<>>
           THEN /\ last' = run @@ [shown |-> "Please enter at least one RSS URL.",
                                   summarized |-> 0]
                /\ UNCHANGED articles
           ELSE IF all_articles = <<>>
           THEN /\ last' = run @@ [shown |-> "No articles found. Check your RSS URLs.",
                                   summarized |-> 0]
                /\ UNCHANGED articles
           ELSE /\ articles' = history
                /\ last' = run @@ [shown |-> "Fetched and summarized",
                                   summarized |-> Len(history)]
        /\ UNCHANGED <<bot_token, chat_id, rag, sim>>

\* Send refusing only when the token and the chat id are both empty
SendIfEitherGiven(max_messages, resp) ==
    /\ articles # <<>>
    /\ IF bot_token = "" /\ chat_id = ""
       THEN last' = [ kind |-> "send", max_messages |-> max_messages,
                      invoked |-> FALSE, posts |-> <<>>,
                      shown |-> "Please fill in both Telegram Bot Token and Chat ID." ]
       ELSE LET r == send_to_telegram(articles, bot_token, chat_id, max_messages, resp)
            IN  last' = [ kind |-> "send", max_messages |-> max_messages,
                          invoked |-> TRUE, posts |-> r.posts, errors |-> r.errors,
                          returned |-> r.returned, sent_count |-> r.count,
                          shown |-> IF r.returned THEN "Sent" ELSE "exception" ]
    /\ UNCHANGED <<articles, bot_token, chat_id, rag, sim>>

\* "Send to Telegram" pressed: the button is there only when articles is not empty
Send(max_messages, resp) ==
    /\ articles # <<>>
    /\ IF bot_token = "" \/ chat_id = ""
       THEN last' = [ kind |-> "send", max_messages |-> max_messages,
                      invoked |-> FALSE, posts |-> <<>>,
                      shown |-> "Please fill in both Telegram Bot Token and Chat ID." ]
       ELSE LET r == send_to_telegram(articles, bot_token, chat_id, max_messages, resp)
            IN  last' = [ kind |-> "send", max_messages |-> max_messages,
                          invoked |-> TRUE, posts |-> r.posts, errors |-> r.errors,
                          returned |-> r.returned, sent_count |-> r.count,
                          shown |-> IF r.returned THEN "Sent" ELSE "exception" ]
    /\ UNCHANGED <<articles, bot_token, chat_id, rag, sim>>

\* the token field edited: the script runs again with no button pressed
EditBotToken(v) ==
    /\ v # bot_token
    /\ bot_token' = v
    /\ last' = [kind |-> "edit"]
    /\ UNCHANGED <<articles, chat_id, rag, sim>>

EditChatId(v) ==
    /\ v # chat_id
    /\ chat_id' = v
    /\ last' = [kind |-> "edit"]
    /\ UNCHANGED <<articles, bot_token, rag, sim>>

Next ==
    \/ \E rss_input \in RssInputs, max_articles \in 1..MaxArticlesInput :
         \E feeds \in [1..Len(UrlsOf[rss_input]) -> FeedOutcomes] :
            Fetch(rss_input, feeds, max_articles)
    \/ \E max_messages \in 1..MaxMessagesInput :
         \E resp \in [1..Len(articles) -> PostOutcomes] :
            Send(max_messages, resp)
    \/ \E v \in Tokens : EditBotToken(v)
    \/ \E v \in ChatIds : EditChatId(v)

Spec == Init /\ [][Next]_vars

---------------------------------------------------------------------------
(* build_rag_summary alone: one call on an article and a history *)

MaxHistory == 4

RECURSIVE Repeat(_, _)
Repeat(s, n) == IF n = 0 THEN "" ELSE s \o Repeat(s, n - 1)

Record(t, s) == [title |-> t, summary |-> s, link |-> "", published |-> ""]

\* a short body; a body whose first 300 characters end in a space, so that
\* the summary has 299 + 3 = 302 characters; no body at all
RagArticles ==
    { Record("Storm update",
             "A storm hit the coast today. It caused flooding. Recovery efforts began."),
      Record("Storm", Repeat("storm surge ", 30)),
      Record("Storm coast", "") }

\* two titles of 32 and 33 characters with the same tokens but the last (302
\* + 12 + 32 + 3 = 349, 302 + 12 + 33 + 3 = 350), an entry with no title,
\* and one that shares a token with the first article only
RagHistory ==
    { Record("Storm surge floods the coast now", "storm surge"),
      Record("Storm surge floods the coast town", "storm surge"),
      Record("", "storm"),
      Record("Election today", "Votes counted.") }

InitRag ==
    /\ articles = <<>>
    /\ bot_token = ""
    /\ chat_id = ""
    /\ last = [kind |-> "start"]
    /\ sim = NoCall
    /\ \E a \in RagArticles, h \in SeqsUpTo(RagHistory, MaxHistory) :
          rag = [called |-> FALSE, article |-> a, history |-> h]

\* the call, with what it computed on the way
CallBuild ==
    /\ ~rag.called
    /\ LET context == Context(SortDesc(Scores(rag.article, rag.history)), TopKDefault)
       IN  rag' = [ called       |-> TRUE,
                    article      |-> rag.article,
                    history      |-> rag.history,
                    context      |-> context,
                    rel_titles   |-> RelTitles(context, rag.history),
                    base_summary |-> summarize_text(rag.article.summary, DefaultMaxChars),
                    result       |-> build_rag_summary(rag.article, rag.history,
                                                       TopKDefault) ]
    /\ UNCHANGED <<articles, bot_token, chat_id, last, sim>>

NextRag == CallBuild

SpecRag == InitRag /\ [][NextRag]_vars

---------------------------------------------------------------------------
(* simple_similarity alone: one call on two texts *)

SimTexts ==
    { "", " ", "...", "cat", "dog", "cat dog", "Cat, DOG!", "dog cat cat",
      "cat dog bird", "hello_9 World" }

InitSim ==
    /\ articles = <<>>
    /\ bot_token = ""
    /\ chat_id = ""
    /\ last = [kind |-> "start"]
    /\ rag = NoCall
    /\ \E a \in SimTexts, b \in SimTexts :
          sim = [called |-> FALSE, a |-> a, b |-> b]

CallSimilarity ==
    /\ ~sim.called
    /\ sim' = [called |-> TRUE, a |-> sim.a, b |-> sim.b,
               score |-> simple_similarity(sim.a, sim.b)]
    /\ UNCHANGED <<articles, bot_token, chat_id, last, rag>>

NextSim == CallSimilarity

SpecSim == InitSim /\ [][NextSim]_vars

---------------------------------------------------------------------------
(* Properties *)

IsSend == last.kind = "send" /\ last.invoked
IsFetch == last.kind = "fetch"

MinOf(a, b) == IF a < b THEN a ELSE b

\* how many posts of the last run got the given outcome
Outcomes(o) == Cardinality({ k \in 1..Len(last.posts) : last.posts[k].outcome = o })

\* C1: send_to_telegram posts exactly the first min(len(articles),
\* max_messages) articles, in list order: never more than max_messages
\* posts, and never an article at a position beyond max_messages, whatever
\* the responses.
C1_PostsWithinCap ==
    IsSend =>
        /\ \A k \in 1..Len(last.posts) : last.posts[k].art = k
        /\ Len(last.posts) <= last.max_messages
        /\ \A k \in 1..Len(last.posts) : last.posts[k].art <= last.max_messages
        /\ last.returned =>
              Len(last.posts) = MinOf(Len(articles), last.max_messages)

C3_PostsNeedCredentials ==
    [][ LET posts == IF last'.kind = "send" THEN last'.posts ELSE <<>>
        IN  /\ posts # <<>> =>
                 bot_token # "" /\ chat_id # "" /\ articles # <<>>
            /\ (last'.kind = "send" /\ (bot_token = "" \/ chat_id = "")) =>
                 posts = <<>> /\ articles' = articles ]_vars

\* a press with the token filled in and the chat id missing
C3_Witness ==
    /\ last.kind = "send"
    /\ ~last.invoked
    /\ bot_token # ""
    /\ chat_id = ""
    /\ articles # <<>>

\* the entries of the feeds that did not fail
RECURSIVE FetchedCount(_, _)
FetchedCount(feeds, u) ==
    IF u > Len(feeds) THEN 0
    ELSE (IF feeds[u].raised THEN 0 ELSE Len(feeds[u].entries))
         + FetchedCount(feeds, u + 1)

\* the i-th of them, counting from feed u on
RECURSIVE NthFetched(_, _, _)
NthFetched(feeds, u, i) ==
    IF feeds[u].raised THEN NthFetched(feeds, u + 1, i)
    ELSE IF i > Len(feeds[u].entries)
         THEN NthFetched(feeds, u + 1, i - Len(feeds[u].entries))
         ELSE feeds[u].entries[i]

\* the annotations that list one or two of the given titles
AnnotationsOver(titles) ==
    { "Related to: " \o t : t \in titles }
    \cup { "Related to: " \o t \o "; " \o u : t \in titles, u \in titles }

\* C4: in a batch the summary of the article at position i is built against
\* the history records of the positions before i: the titles its annotation
\* lists are titles of earlier articles, and the first article gets no
\* annotation (its summary is summarize_text of its body).
C4_HistoryIsTheEarlierArticles ==
    (IsFetch /\ FetchedCount(last.feeds, 1) > 0) =>
        LET raw == Take(FetchAll(last.feeds, 1), last.max_articles)
        IN  /\ Len(articles) = Len(raw)
            /\ \A i \in 1..Len(raw) :
                  LET base == summarize_text(raw[i].summary, 300)
                      earlier == { articles[j].title : j \in 1..(i - 1) } \ {""}
                  IN  /\ articles[i].summary =
                            build_rag_summary(raw[i], SubSeq(articles, 1, i - 1), 3)
                      /\ articles[i].summary \in
                            {base} \cup { base \o " | " \o a : a \in AnnotationsOver(earlier) }
                      /\ i = 1 => articles[i].summary = base

\* the second article names the first, which has another title and no annotation
C4_Witness ==
    /\ IsFetch
    /\ FetchedCount(last.feeds, 1) > 1
    /\ Len(articles) >= 2
    /\ articles[1].title # articles[2].title
    /\ articles[1].summary =
          summarize_text(parse_entry(NthFetched(last.feeds, 1, 1)).summary, 300)
    /\ articles[2].summary =
          summarize_text(parse_entry(NthFetched(last.feeds, 1, 2)).summary, 300)
          \o " | Related to: " \o articles[1].title

\* C5: after a fetch that yields an entry the articles are min(N,
\* max_articles) records, N the number of entries of the urls whose fetch did
\* not fail; record i has the title, link and published of the i-th of these
\* entries (urls in order, entries in feed order); a failing url adds nothing
\* and stops nothing; no entry beyond the cap is summarized.
C5_BatchIsTheFetchedPrefix ==
    (IsFetch /\ FetchedCount(last.feeds, 1) > 0) =>
        /\ Len(articles) = MinOf(FetchedCount(last.feeds, 1), last.max_articles)
        /\ last.summarized = Len(articles)
        /\ \A i \in 1..Len(articles) :
              LET e == NthFetched(last.feeds, 1, i)
              IN  /\ articles[i].title = getattr(e, "title")
                  /\ articles[i].link = getattr(e, "link")
                  /\ articles[i].published = getattr(e, "published")

\* the first url failed, the second gave more entries than the cap
C5_Witness ==
    /\ IsFetch
    /\ Len(last.feeds) = 2
    /\ last.feeds[1].raised
    /\ Len(last.feeds[2].entries) > last.max_articles
    /\ Len(articles) = last.max_articles
    /\ last.feeds[2].entries[1] # last.feeds[2].entries[2]

\* C6: build_rag_summary appends " | " and the annotation only when
\* len(base_summary) + len(annotation) + 3 < 350, and returns base_summary
\* alone when that sum is 350 or more; so a summary is the summarizer's
\* output (at most 303 characters) or an annotated one of less than 350.
C6_AnnotationWithinBudget ==
    rag.called =>
        LET base == summarize_text(rag.article.summary, 300)
            ctx == "Related to: " \o Join("; ", Take(rag.rel_titles, 2))
            total == Len(base) + Len(ctx) + 3
        IN  /\ Len(base) <= 303
            /\ rag.result # base =>
                  /\ rag.result = base \o " | " \o ctx
                  /\ total < 350
                  /\ Len(rag.result) < 350
            /\ total >= 350 => rag.result = base

\* titles to list, and a sum of exactly 350: the annotation is dropped
C6_Witness ==
    /\ rag.called
    /\ rag.rel_titles # <<>>
    /\ Len(rag.base_summary) + Len("Related to: " \o rag.rel_titles[1]) + 3 = 350
    /\ Len(rag.rel_titles) = 1
    /\ rag.result = rag.base_summary

\* C7: simple_similarity(a, b) is 0 when a token set is empty, and otherwise
\* |Ta & Tb| / (|Ta| + |Tb|), which is in [0, 0.5] and is 0.5 when Ta = Tb.
C7_SimilarityValue ==
    sim.called =>
        LET Ta == text_to_tokens(sim.a)
            Tb == text_to_tokens(sim.b)
            n == sim.score[1]
            d == sim.score[2]
        IN  /\ d > 0
            /\ (Ta = {} \/ Tb = {}) => n = 0
            /\ (Ta # {} /\ Tb # {}) =>
                  /\ n = Cardinality(Ta \cap Tb)
                  /\ d = Cardinality(Ta) + Cardinality(Tb)
                  /\ 0 <= n
                  /\ 2 * n <= d
                  /\ Ta = Tb => 2 * n = d

\* two different texts with the same two tokens
C7_Witness ==
    /\ sim.called
    /\ sim.a # sim.b
    /\ text_to_tokens(sim.a) = text_to_tokens(sim.b)
    /\ Cardinality(text_to_tokens(sim.a)) = 2
    /\ sim.score = <<2, 4>>

\* the scores of the history entries of the call in rag
RagScores ==
    [ j \in 1..Len(rag.history) |->
        simple_similarity(compare_text(rag.article), compare_text(rag.history[j])) ]

\* with scores sc, entry k comes before entry j: a greater score, or the
\* same and earlier
ScoredBefore(sc, k, j) ==
    \/ ScoreGt(sc[k], sc[j])
    \/ ~ScoreGt(sc[j], sc[k]) /\ k < j

ScoredRank(sc, j) == Cardinality({ k \in 1..Len(sc) : ScoredBefore(sc, k, j) })

RagContextTitles ==
    SelectSeq([ i \in 1..Len(rag.context) |-> rag.history[rag.context[i]].title ],
              LAMBDA t : t # "")

\* C8: the context is the first top_k (3) history entries by score
\* descending, ties in history order, less those of score 0; the annotation
\* lists the first 2 titles that are not empty, in that order.
C8_ContextIsTopKByScore ==
    rag.called =>
        LET sc == RagScores
        IN  /\ \A j \in 1..Len(rag.history) :
                  (\E i \in 1..Len(rag.context) : rag.context[i] = j)
                     <=> (ScoredRank(sc, j) < 3 /\ sc[j][1] > 0)
            /\ \A i \in 1..(Len(rag.context) - 1) :
                  ScoredRank(sc, rag.context[i]) < ScoredRank(sc, rag.context[i + 1])
            /\ rag.result \in
                  { rag.base_summary,
                    rag.base_summary \o " | Related to: "
                       \o Join("; ", Take(RagContextTitles, 2)) }

\* an entry of positive score left out by top_k, a later entry ranked before
\* an earlier one, a tie between two titles, both listed
C8_Witness ==
    /\ rag.called
    /\ Len(rag.context) = 3
    /\ rag.context[2] > rag.context[3]
    /\ rag.history[rag.context[1]].title # rag.history[rag.context[2]].title
    /\ rag.result = rag.base_summary \o " | Related to: "
          \o rag.history[rag.context[1]].title \o "; "
          \o rag.history[rag.context[2]].title
    /\ LET sc == RagScores
       IN  /\ sc[rag.context[1]] = sc[rag.context[2]]
           /\ \E j \in 1..Len(rag.history) :
                 sc[j][1] > 0 /\ \A i \in 1..Len(rag.context) : rag.context[i] # j

\* the context is not empty and none of its entries has a title
RagUntitledContext ==
    /\ rag.called
    /\ rag.context # <<>>
    /\ \A i \in 1..Len(rag.context) : rag.history[rag.context[i]].title = ""

\* C9 as stated: with a context whose entries all have an empty title,
\* build_rag_summary returns base_summary + " | Related to: " whenever that
\* fits the 350 characters.
C9_EmptyAnnotationEmitted ==
    (RagUntitledContext /\ Len(rag.base_summary) + Len("Related to: ") + 3 < 350) =>
        rag.result = rag.base_summary \o " | Related to: "

\* C9 amended: with a context whose entries all have an empty title,
\* build_rag_summary returns base_summary alone, with no annotation.
C9_NoAnnotationWithoutTitles ==
    RagUntitledContext =>
        rag.result = summarize_text(rag.article.summary, 300)

C9_Witness ==
    /\ RagUntitledContext
    /\ Len(rag.context) = 2
    /\ rag.base_summary # ""
    /\ Len(rag.base_summary) + Len("Related to: ") + 3 < 350

\* the fetch of run came to nothing: no urls, or no entry from any of them
EmptyResult(run) ==
    \A u \in 1..Len(run.feeds) : run.feeds[u].raised \/ run.feeds[u].entries = <<>>

\* C10: a fetch that finds no url or no entry makes no summary and leaves
\* the articles as they were; only a fetch that yields an entry replaces
\* them, so the posts of a later send are those of the articles kept.
C10_EmptyFetchKeepsArticles ==
    [][ /\ (last'.kind = "fetch" /\ EmptyResult(last')) =>
              articles' = articles /\ last'.summarized = 0
        /\ articles' # articles =>
              last'.kind = "fetch" /\ ~EmptyResult(last')
        /\ (last'.kind = "send" /\ last'.invoked) =>
              \A k \in 1..Len(last'.posts) :
                 last'.posts[k].text = message_text(articles[last'.posts[k].art]) ]_vars

\* urls were given, none yielded an entry, and the earlier batch is still there
C10_Witness ==
    /\ IsFetch
    /\ last.feeds # <<>>
    /\ EmptyResult(last)
    /\ articles # <<>>

=============================================================================
